---- MODULE Spec2Model ----
(***************************************************************************)
(* tap-magento, tap_magento/client.py: the MagentoStream REST client.      *)
(*                                                                         *)
(* The model follows one tap run.  The streams of the tap are synced one   *)
(* after the other; for each stream the SDK's request loop prepares a page *)
(* request (which reads the `authenticator` property and get_url_params),  *)
(* sends it through the callable built by request_decorator (backoff over  *)
(* send + validate_response), then hands the response to parse_response    *)
(* and get_next_page_token.  The HTTP servers (token endpoints and data    *)
(* endpoint) are the environment: their answers are drawn from small sets. *)
(***************************************************************************)
EXTENDS Integers, Sequences, FiniteSets, TLC

VARIABLES
    config,             \* self.config: username, password, api_key
    jsonpath,           \* self.next_page_token_jsonpath (None or an expression)
    replication,        \* self.replication_key and the stream's starting timestamp
    cur,                \* the stream instance being synced
    pc,                 \* position of the request loop
    inst_token,         \* per instance: the instance attribute access_token
    last_auth,          \* what the read of `authenticator` just made did
    next_page_token,    \* the request loop's page cursor (NoneToken = None)
    params,             \* query parameters of the prepared page request
    bearer,             \* token of the prepared request's Authorization header
    tries,               \* attempts made for the current page request
    resp,               \* outcome of the latest attempt of the page request
    raised,             \* exception that ended the run (None: none)
    emitted,            \* records yielded from the page request's response
    pages,              \* page requests prepared by the current stream
    wait_max,           \* value of backoff.expo for the wait before the next attempt
    wait,               \* seconds waited before the next attempt (0: no wait)
    total               \* total_count of a server with a fixed total (Absent: any server)

vars == << config, jsonpath, replication, cur, pc, inst_token, last_auth,
           next_page_token, params, bearer, tries, resp, raised,
           emitted, pages, wait_max, wait, total >>

-----------------------------------------------------------------------------
(* Bounds of the model *)

\* stream instances synced in one run
NumStreams == 2

\* page requests one stream may prepare before the model stops following it
MaxPages == 3

-----------------------------------------------------------------------------
(* Python values *)

\* Python's None, for the string-valued fields
None == "None"

\* an instance attribute that was never assigned: lookup falls to the class
Unset == "<unset>"

\* a response body that is not JSON: response.json() raises
BadBody == "<not json>"

\* Python truthiness of the string-valued fields ("" and None are falsy)
Truthy(v) == v # None /\ v # ""

\* the page cursor None
NoneToken == 0

\* a key absent from a JSON object (for the number-valued keys)
Absent == -1

-----------------------------------------------------------------------------
(* The token endpoints: what a POST to one of them may come to *)

\* no POST was made
NoOutcome == [kind |-> "none", status |-> 0, body |-> None]

\* s.post(...) itself raises (no connection, timeout, ...)
TransportError == [kind |-> "error", status |-> 0, body |-> None]

\* a JSON object such as {"message": "..."}: parsable and truthy
ErrorBody == "{message}"

\* token values a server may issue
Tokens == {"tokA", "tokB"}

\* answers of a token endpoint; body is the parsed JSON value, or BadBody
TokenOutcomes ==
    { TransportError }
    \cup { [kind |-> "resp", status |-> 200, body |-> b] : b \in Tokens \cup {"", BadBody} }
    \cup { [kind |-> "resp", status |-> 300, body |-> "tokA"],
           [kind |-> "resp", status |-> 401, body |-> ErrorBody] }

\* requests.Response.json(): raises when the body is not JSON
JsonRaises(r) == r.body = BadBody

\* requests.Response.raise_for_status(): HTTPError for 4xx and 5xx only
RaiseForStatusRaises(r) == 400 <= r.status /\ r.status < 600

\* the try block of get_token: post to the primary endpoint, login.json(),
\* login.raise_for_status(); any exception sends control to the bare except
TryRaises(p) ==
    \/ p.kind = "error"
    \/ JsonRaises(p)
    \/ RaiseForStatusRaises(p)

\* self.access_token: the instance attribute if assigned, else the class
\* attribute MagentoStream.access_token, which is None and never assigned
access_token(inst) == IF inst = Unset THEN None ELSE inst

\* the result of a get_token call that makes no POST
CachedResult(inst) ==
    [ primary |-> NoOutcome, fallback |-> NoOutcome, err |-> None,
      token |-> access_token(inst), inst |-> inst ]

\* the body of `if not self.access_token:` in get_token, when the primary
\* endpoint would answer p and the fallback endpoint f.  The result names the
\* POSTs made (NoOutcome: none), the exception raised (None: returned), the
\* value returned and the instance attribute afterwards.
login_exchange(inst, p, f) ==
    LET fb    == TryRaises(p)
        login == IF fb THEN f ELSE p
        made  == [ primary |-> p, fallback |-> IF fb THEN f ELSE NoOutcome ]
        fail(e) == [ primary |-> made.primary, fallback |-> made.fallback,
                     err |-> e, token |-> None, inst |-> inst ]
    IN  IF login.kind = "error" THEN fail("requests.ConnectionError")
        ELSE IF RaiseForStatusRaises(login) THEN fail("requests.HTTPError")
        ELSE IF JsonRaises(login) THEN fail("JSONDecodeError")
        ELSE [ primary |-> made.primary, fallback |-> made.fallback,
               err |-> None, token |-> login.body, inst |-> login.body ]

\* mutant: the cache is not consulted, every call logs in again
get_token_nocache(inst, p, f) == login_exchange(inst, p, f)

\* mutant: the except branch re-raises instead of trying the fallback
get_token_nofallback(inst, p, f) ==
    IF Truthy(access_token(inst)) THEN CachedResult(inst)
    ELSE IF TryRaises(p)
         THEN [ primary |-> p, fallback |-> NoOutcome, err |-> "requests.HTTPError",
                token |-> None, inst |-> inst ]
         ELSE login_exchange(inst, p, f)

\* mutant: the token is read from the fallback endpoint whatever the primary says
get_token_fallback_always(inst, p, f) ==
    IF Truthy(access_token(inst)) THEN CachedResult(inst)
    ELSE [ login_exchange(inst, TransportError, f) EXCEPT !.primary = p ]

\* mutant: the body of the last response is stored before its status is checked
get_token_cache_early(inst, p, f) ==
    IF Truthy(access_token(inst)) THEN CachedResult(inst)
    ELSE LET r     == login_exchange(inst, p, f)
             login == IF TryRaises(p) THEN f ELSE p
         IN  IF r.err = "requests.HTTPError" /\ ~JsonRaises(login)
             THEN [ r EXCEPT !.inst = login.body ]
             ELSE r

\* get_token: the cached token if there is one, else the login exchange
get_token(inst, p, f) ==
    IF Truthy(access_token(inst))
    THEN CachedResult(inst)
    ELSE login_exchange(inst, p, f)

\* the condition of `authenticator`:
\*   self.config.get('username') and self.config.get('password') is not None
UsesLogin(cfg) == Truthy(cfg.username) /\ cfg.password # None

\* mutant: the else branch reads the wrong configuration key
authenticator_wrong_key(cfg, inst, p, f) ==
    IF UsesLogin(cfg)
    THEN get_token(inst, p, f)
    ELSE [ primary |-> NoOutcome, fallback |-> NoOutcome, err |-> None,
           token |-> cfg.username, inst |-> inst ]

\* mutant: the login exchange is made whatever is configured
authenticator_always_login(cfg, inst, p, f) == get_token(inst, p, f)

\* the `authenticator` property: the token handed to BearerTokenAuthenticator
\* (which wraps whatever it is given, None included)
authenticator(cfg, inst, p, f) ==
    IF UsesLogin(cfg)
    THEN get_token(inst, p, f)
    ELSE [ primary |-> NoOutcome, fallback |-> NoOutcome, err |-> None,
           token |-> cfg.api_key, inst |-> inst ]

-----------------------------------------------------------------------------
(* The data endpoint: what one attempt of a page request may come to *)

\* params["searchCriteria[pageSize]"], and the page size of get_next_page_token
PageSize == 300

\* the exception classes in play and their base classes (each is its own
\* ancestor).  requests' ConnectionError derives from RequestException, an
\* OSError; it is not the builtin ConnectionError.
Ancestors(e) ==
    CASE e = "requests.ReadTimeout" ->
           {"requests.ReadTimeout", "requests.Timeout", "requests.RequestException", "OSError"}
      [] e = "requests.ConnectionError" ->
           {"requests.ConnectionError", "requests.RequestException", "OSError"}
      [] e = "builtins.ConnectionError" -> {"builtins.ConnectionError", "OSError"}
      [] OTHER -> {e}

\* what the HTTP transport raises when a page request fails below HTTP
TransportExceptions == {"requests.ReadTimeout", "requests.ConnectionError"}

\* status codes the data endpoint answers with
DataStatuses == {200, 399, 400, 403, 404, 499, 500, 503, 599, 600}

\* a JSON object with none of the keys the client reads
EmptyBody ==
    [ json |-> TRUE, items |-> 0, total_count |-> Absent, search_criteria |-> "missing",
      current_page |-> 0, next |-> Absent ]

\* bodies of a page: `items` records, total_count (or Absent), search_criteria
\* ("missing": absent or empty, "no_page": without current_page, "page": with
\* current_page), and the value the next-page JSON path finds (or Absent)
PageBodies ==
    { [ json |-> TRUE, items |-> 2, total_count |-> tc, search_criteria |-> sc.tag,
        current_page |-> sc.page, next |-> Absent ] :
        tc \in {Absent, PageSize, PageSize + 1, 2 * PageSize + 1},
        sc \in { [tag |-> "missing", page |-> 0], [tag |-> "no_page", page |-> 0],
                 [tag |-> "page", page |-> 1], [tag |-> "page", page |-> 2] } }
    \cup { [ EmptyBody EXCEPT !.items = 1, !.next = 2 ],
           [ EmptyBody EXCEPT !.json = FALSE ] }

\* outcomes of one attempt: the transport raises, or a response arrives
\* (exc: the exception the wrapped function ends with, None: none)
DataOutcomes ==
    { [kind |-> "exc", exc |-> e, status |-> 0, body |-> EmptyBody] : e \in TransportExceptions }
    \cup { [kind |-> "resp", exc |-> None, status |-> 200, body |-> b] : b \in PageBodies }
    \cup { [kind |-> "resp", exc |-> None, status |-> 404, body |-> b] :
             b \in { EmptyBody, [ EmptyBody EXCEPT !.next = 2 ],
                     [ EmptyBody EXCEPT !.json = FALSE ] } }
    \cup { [kind |-> "resp", exc |-> None, status |-> s, body |-> EmptyBody] :
             s \in DataStatuses \ {200, 404} }

\* no attempt made yet
NoResp == [kind |-> "none", exc |-> None, status |-> 0, body |-> EmptyBody]

\* mutant: 404 is not singled out
validate_response_404_fatal(status) ==
    IF 400 <= status /\ status < 500 THEN "FatalAPIError"
    ELSE IF 500 <= status /\ status < 600 THEN "RetriableAPIError"
    ELSE None

\* mutant: every error status is reported as retriable
validate_response_all_retriable(status) ==
    IF status = 404 THEN None
    ELSE IF 400 <= status /\ status < 600 THEN "RetriableAPIError"
    ELSE None

\* validate_response: the exception raised for a status (None: none)
validate_response(status) ==
    IF status = 404 THEN None
    ELSE IF 400 <= status /\ status < 500 THEN "FatalAPIError"
    ELSE IF 500 <= status /\ status < 600 THEN "RetriableAPIError"
    ELSE None

\* the wrapped function (send, then validate_response): the exception it
\* raises for an outcome (None: it returns the response)
RequestRaises(out) ==
    IF out.kind = "exc" THEN out.exc ELSE validate_response(out.status)

\* max_tries and factor of backoff.on_exception
max_tries == 5
factor == 2

\* mutant: the same delay before every retry
expo_constant(n) == factor

\* backoff.expo with this factor (and its base, 2): the value it yields for
\* the wait after the n-th failed attempt
expo(n) == factor * 2 ^ (n - 1)

\* backoff.on_exception is given no jitter, so backoff's full_jitter is
\* applied: the wait is random.uniform(0, value); its ends and its middle
full_jitter(value) == {0, value \div 2, value}

\* the exception classes handed to backoff.on_exception; ConnectionError is
\* the builtin, the module imports no other
RetriedExceptions ==
    {"RetriableAPIError", "requests.ReadTimeout", "builtins.ConnectionError"}

\* isinstance(e, <the tuple>)
IsRetried(e) == Ancestors(e) \cap RetriedExceptions # {}

\* mutant: one attempt too many
request_decorator_six(n, exc) ==
    IF exc = None THEN "return"
    ELSE IF ~IsRetried(exc) THEN "raise"
    ELSE IF n >= max_tries + 1 THEN "raise"
    ELSE "retry"

\* the callable request_decorator builds, after its n-th call of the wrapped
\* function ended with exc: return the response, wait and call again, or let
\* the exception out
request_decorator(n, exc) ==
    IF exc = None THEN "return"
    ELSE IF ~IsRetried(exc) THEN "raise"
    ELSE IF n >= max_tries THEN "raise"
    ELSE "retry"

\* mutant: 404 is not singled out, the body is always read
parse_response_no404(r) ==
    IF ~r.body.json THEN [err |-> "JSONDecodeError", n |-> 0]
    ELSE [err |-> None, n |-> r.body.items]

\* parse_response: the number of records yielded, or the exception raised
parse_response(r) ==
    IF r.status = 404 THEN [err |-> None, n |-> 0]
    ELSE IF ~r.body.json THEN [err |-> "JSONDecodeError", n |-> 0]
    ELSE [err |-> None, n |-> r.body.items]

\* mutant: the comparison of the total-count rule is turned round
get_next_page_token_flipped(path, r) ==
    IF path # None
    THEN IF ~r.body.json THEN [err |-> "JSONDecodeError", token |-> NoneToken]
         ELSE [err |-> None,
               token |-> IF r.body.next = Absent THEN NoneToken ELSE r.body.next]
    ELSE IF r.status = 404 THEN [err |-> None, token |-> NoneToken]
    ELSE IF ~r.body.json THEN [err |-> "JSONDecodeError", token |-> NoneToken]
    ELSE LET total_count == IF r.body.total_count = Absent THEN 0 ELSE r.body.total_count
         IN  IF r.body.search_criteria = "no_page"
             THEN [err |-> "TypeError", token |-> NoneToken]
             ELSE LET current_page == IF r.body.search_criteria = "page"
                                      THEN r.body.current_page ELSE 1
                  IN  [err |-> None,
                       token |-> IF total_count < current_page * PageSize
                                 THEN current_page + 1 ELSE NoneToken]

\* mutant: a full last page is followed by one more request
get_next_page_token_gteq(path, r) ==
    IF path # None
    THEN IF ~r.body.json THEN [err |-> "JSONDecodeError", token |-> NoneToken]
         ELSE [err |-> None,
               token |-> IF r.body.next = Absent THEN NoneToken ELSE r.body.next]
    ELSE IF r.status = 404 THEN [err |-> None, token |-> NoneToken]
    ELSE IF ~r.body.json THEN [err |-> "JSONDecodeError", token |-> NoneToken]
    ELSE LET total_count == IF r.body.total_count = Absent THEN 0 ELSE r.body.total_count
         IN  IF r.body.search_criteria = "no_page"
             THEN [err |-> "TypeError", token |-> NoneToken]
             ELSE LET current_page == IF r.body.search_criteria = "page"
                                      THEN r.body.current_page ELSE 1
                  IN  [err |-> None,
                       token |-> IF total_count >= current_page * PageSize
                                 THEN current_page + 1 ELSE NoneToken]

\* get_next_page_token: the next cursor (NoneToken: no more pages), or the
\* exception raised
get_next_page_token(path, r) ==
    IF path # None
    THEN IF ~r.body.json THEN [err |-> "JSONDecodeError", token |-> NoneToken]
         ELSE [err |-> None,
               token |-> IF r.body.next = Absent THEN NoneToken ELSE r.body.next]
    ELSE IF r.status = 404 THEN [err |-> None, token |-> NoneToken]
    ELSE IF ~r.body.json THEN [err |-> "JSONDecodeError", token |-> NoneToken]
    ELSE LET total_count == IF r.body.total_count = Absent THEN 0 ELSE r.body.total_count
         IN  IF r.body.search_criteria = "no_page"
             THEN [err |-> "TypeError", token |-> NoneToken]
             ELSE LET current_page == IF r.body.search_criteria = "page"
                                      THEN r.body.current_page ELSE 1
                  IN  [err |-> None,
                       token |-> IF total_count > current_page * PageSize
                                 THEN current_page + 1 ELSE NoneToken]

\* self.get_starting_timestamp(context): None, or a datetime
NoTimestamp ==
    [ known |-> FALSE, year |-> 0, month |-> 0, day |-> 0,
      hour |-> 0, minute |-> 0, second |-> 0, microsecond |-> 0 ]

StartingTimestamps ==
    { NoTimestamp,
      [ known |-> TRUE, year |-> 2024, month |-> 1, day |-> 2,
        hour |-> 3, minute |-> 4, second |-> 5, microsecond |-> 678 ] }

\* start_date.strftime("%Y-%m-%d %H:%M:%S"): the six fields of the format;
\* what is below the second is dropped
strftime(d) == << d.year, d.month, d.day, d.hour, d.minute, d.second >>

\* a parameter that is not set (for the formatted value)
NoValue == << >>

\* the paging parameters of get_url_params, nothing else set
PagingParams(token) ==
    [ pageSize |-> PageSize,
      currentPage |-> IF token = NoneToken THEN 1 ELSE token,
      sort |-> None, filter_field |-> None, filter_value |-> NoValue,
      filter_condition |-> None, order_by |-> None ]

\* mutant: the first page is asked for whatever the cursor
get_url_params_first_page(key, start, token) ==
    LET base == [ PagingParams(token) EXCEPT !.currentPage = 1 ]
    IN  IF key = None THEN base
        ELSE IF ~start.known THEN [ base EXCEPT !.order_by = key ]
        ELSE [ base EXCEPT !.sort = "asc", !.filter_field = key,
                           !.filter_value = strftime(start),
                           !.filter_condition = "gt", !.order_by = key ]

\* mutant: the filter keeps the records equal to the starting value
get_url_params_gteq(key, start, token) ==
    LET base == PagingParams(token)
    IN  IF key = None THEN base
        ELSE IF ~start.known THEN [ base EXCEPT !.order_by = key ]
        ELSE [ base EXCEPT !.sort = "asc", !.filter_field = key,
                           !.filter_value = strftime(start),
                           !.filter_condition = "gteq", !.order_by = key ]

\* get_url_params for a stream with replication key `key` (None: none), when
\* get_starting_timestamp gives `start`, and the cursor is `token`
get_url_params(key, start, token) ==
    LET base == PagingParams(token)
    IN  IF key = None THEN base
        ELSE IF ~start.known THEN [ base EXCEPT !.order_by = key ]
        ELSE [ base EXCEPT !.sort = "asc", !.filter_field = key,
                           !.filter_value = strftime(start),
                           !.filter_condition = "gt", !.order_by = key ]

\* no request prepared yet
NoParams ==
    [ pageSize |-> 0, currentPage |-> 0, sort |-> None, filter_field |-> None,
      filter_value |-> NoValue, filter_condition |-> None, order_by |-> None ]

-----------------------------------------------------------------------------
(* The run *)

Streams == 1 .. NumStreams

Configs ==
    [ username : {None, "", "u"}, password : {None, "", "p"}, api_key : {None, "k"} ]

\* streams without a replication key, and streams with one, with or without
\* a starting timestamp (a bookmark or a configured start date)
Replications ==
    { [key |-> None, start |-> NoTimestamp] }
    \cup { [key |-> "updated_at", start |-> d] : d \in StartingTimestamps }

\* no read of `authenticator` has just been made
NoAuth ==
    [ called |-> FALSE, primary |-> NoOutcome, fallback |-> NoOutcome, err |-> None,
      token |-> None, inst |-> Unset, before |-> Unset ]

Init ==
    /\ config \in Configs
    /\ jsonpath \in {None, "$.next"}
    /\ replication \in Replications
    /\ cur = 1
    /\ pc = "prepare"
    /\ inst_token = [s \in Streams |-> Unset]
    /\ last_auth = NoAuth
    /\ next_page_token = NoneToken
    /\ params = NoParams
    /\ bearer = Unset
    /\ tries = 0
    /\ resp = NoResp
    /\ raised = None
    /\ emitted = 0
    /\ pages = 0
    /\ wait_max = 0
    /\ wait = 0
    /\ total = Absent

\* The request loop prepares the next page request: get_url_params, then the
\* `authenticator` property, whose token becomes the Authorization header.
\* An exception out of get_token ends the run.  n is the count of page
\* requests of the stream after this one.
Prepare(n) ==
    /\ pc = "prepare"
    /\ \E p \in TokenOutcomes, f \in TokenOutcomes :
         LET a == authenticator(config, inst_token[cur], p, f)
         IN  /\ last_auth' = [ called |-> TRUE,
                               primary |-> a.primary, fallback |-> a.fallback,
                               err |-> a.err, token |-> a.token, inst |-> a.inst,
                               before |-> inst_token[cur] ]
             /\ inst_token' = [inst_token EXCEPT ![cur] = a.inst]
             /\ IF a.err # None
                THEN /\ pc' = "aborted"
                     /\ raised' = a.err
                     /\ bearer' = bearer
                ELSE /\ pc' = "send"
                     /\ raised' = raised
                     /\ bearer' = a.token
    /\ params' = get_url_params(replication.key, replication.start, next_page_token)
    /\ pages' = n
    /\ tries' = 0
    /\ resp' = NoResp
    /\ emitted' = 0
    /\ wait_max' = 0
    /\ wait' = 0
    /\ UNCHANGED << config, jsonpath, replication, cur, next_page_token, total >>

\* The page requests of a stream are followed up to MaxPages of them.
PrepareRequest ==
    /\ pages < MaxPages
    /\ Prepare(pages + 1)

\* The same without the limit: from MaxPages on the page requests are no
\* longer counted.
PrepareRequestOn == Prepare(IF pages < MaxPages THEN pages + 1 ELSE MaxPages)

\* One call of the wrapped request function by the callable of
\* request_decorator: the request is sent, the response validated, and
\* backoff returns, retries or lets the exception out.
AttemptOf(outcomes) ==
    /\ pc = "send"
    /\ \E out \in outcomes :
         LET exc == RequestRaises(out)
             go  == request_decorator(tries + 1, exc)
         IN  /\ resp' = [out EXCEPT !.exc = exc]
             /\ pc' = CASE go = "return" -> "parse"
                        [] go = "retry"  -> "send"
                        [] OTHER         -> "aborted"
             /\ raised' = IF go = "raise" THEN exc ELSE raised
             /\ wait_max' = IF go = "retry" THEN expo(tries + 1) ELSE 0
             /\ wait' \in IF go = "retry" THEN full_jitter(expo(tries + 1)) ELSE {0}
    /\ tries' = tries + 1
    /\ last_auth' = NoAuth
    /\ UNCHANGED << config, jsonpath, replication, cur, inst_token,
                    next_page_token, params, bearer, emitted, pages, total >>

\* against any server
Attempt == AttemptOf(DataOutcomes)

\* The request loop consumes a validated response: parse_response yields the
\* page's records, get_next_page_token decides whether another page follows.
\* The decorated call has returned, its count of tries is gone.
ProcessPage ==
    /\ pc = "parse"
    /\ LET recs == parse_response(resp)
           nxt  == get_next_page_token(jsonpath, resp)
       IN  IF recs.err # None
           THEN /\ pc' = "aborted"
                /\ raised' = recs.err
                /\ UNCHANGED << emitted, next_page_token >>
           ELSE /\ emitted' = recs.n
                /\ IF nxt.err # None
                   THEN /\ pc' = "aborted"
                        /\ raised' = nxt.err
                        /\ UNCHANGED next_page_token
                   ELSE /\ next_page_token' = nxt.token
                        /\ pc' = IF nxt.token = NoneToken THEN "done" ELSE "prepare"
                        /\ raised' = raised
    /\ tries' = 0
    /\ UNCHANGED << config, jsonpath, replication, cur, inst_token, last_auth,
                    params, bearer, resp, pages, wait_max, wait, total >>

\* The tap moves on to its next stream: a new instance, a new request loop.
NextStream ==
    /\ pc = "done"
    /\ cur < NumStreams
    /\ cur' = cur + 1
    /\ pc' = "prepare"
    /\ last_auth' = NoAuth
    /\ next_page_token' = NoneToken
    /\ params' = NoParams
    /\ bearer' = Unset
    /\ tries' = 0
    /\ resp' = NoResp
    /\ emitted' = 0
    /\ pages' = 0
    /\ UNCHANGED << config, jsonpath, replication, inst_token, raised,
                    wait_max, wait, total >>

Next ==
    \/ PrepareRequest
    \/ Attempt
    \/ ProcessPage
    \/ NextStream

Spec == Init /\ [][Next]_vars

\* The run with no limit on the page requests of a stream.  The request loop
\* is a plain sequential loop: a step that can be taken is taken.
NextOn ==
    \/ PrepareRequestOn
    \/ Attempt
    \/ ProcessPage
    \/ NextStream

\* its runs start with one of the two credential modes and a stream that has
\* no replication key (neither bears on how long a run goes on)
InitOn ==
    /\ Init
    /\ config \in { [username |-> None, password |-> None, api_key |-> "k"],
                     [username |-> "u", password |-> "p", api_key |-> None] }
    /\ replication.key = None

SpecOn == InitOn /\ [][NextOn]_vars /\ WF_vars(NextOn)

\* The run against a server that holds a fixed number of records, reports it
\* as total_count and echoes the requested page as
\* search_criteria.current_page, with no error on the data endpoint.
Totals ==
    UNION { {k * PageSize, k * PageSize + 1, (k + 1) * PageSize - 1} :
            k \in 0 .. MaxPages - 1 } \cup {MaxPages * PageSize}

\* the records of page n of t records
PageItems(t, n) ==
    IF t <= (n - 1) * PageSize THEN 0
    ELSE IF t >= n * PageSize THEN PageSize
    ELSE t - (n - 1) * PageSize

HonestResponse ==
    [ kind |-> "resp", exc |-> None, status |-> 200,
      body |-> [ json |-> TRUE, items |-> PageItems(total, params.currentPage),
                 total_count |-> total, search_criteria |-> "page",
                 current_page |-> params.currentPage, next |-> Absent ] ]

HonestAttempt == AttemptOf({HonestResponse})

NextHonest ==
    \/ PrepareRequest
    \/ HonestAttempt
    \/ ProcessPage
    \/ NextStream

InitHonest ==
    /\ config \in Configs
    /\ UsesLogin(config) \/ Truthy(config.api_key)
    /\ jsonpath = None
    /\ replication \in Replications
    /\ cur = 1
    /\ pc = "prepare"
    /\ inst_token = [s \in Streams |-> Unset]
    /\ last_auth = NoAuth
    /\ next_page_token = NoneToken
    /\ params = NoParams
    /\ bearer = Unset
    /\ tries = 0
    /\ resp = NoResp
    /\ raised = None
    /\ emitted = 0
    /\ pages = 0
    /\ wait_max = 0
    /\ wait = 0
    /\ total \in Totals

SpecHonest == InitHonest /\ [][NextHonest]_vars

TypeOK ==
    /\ config \in Configs
    /\ cur \in Streams
    /\ pc \in {"prepare", "send", "parse", "done", "aborted"}
    /\ tries \in 0 .. max_tries
    /\ pages \in 0 .. MaxPages

-----------------------------------------------------------------------------
(* Properties *)

\* the configuration holds a username and a password (username/password mode)
LoginConfigured == config.username \notin {None, ""} /\ config.password # None

\* the configuration holds an API key
KeyConfigured == config.api_key \notin {None, ""}

\* stream s holds a token in its access_token attribute
HoldsToken(s) == inst_token[s] \notin {Unset, None, ""}

\* the step is a read of `authenticator` (only PrepareRequest prepares a page)
AuthStep == pages' = pages + 1

\* the read of `authenticator` just made posted to no token endpoint
NoPost == last_auth.primary = NoOutcome /\ last_auth.fallback = NoOutcome

\* C1: in username/password mode, once a stream holds a token, no step
\* clears or replaces it, and every later read of `authenticator` by that
\* stream posts to neither token endpoint and returns that token.
C1_TokenReused ==
    [][ \A s \in Streams :
          (LoginConfigured /\ HoldsToken(s)) =>
             /\ inst_token'[s] = inst_token[s]
             /\ (AuthStep /\ cur = s) =>
                  /\ last_auth'.primary = NoOutcome
                  /\ last_auth'.fallback = NoOutcome
                  /\ last_auth'.err = None
                  /\ last_auth'.token = inst_token[s]
                  /\ bearer' = inst_token[s] ]_vars

\* C1 witness: a second page request of a stream was prepared with the token
\* cached by an earlier one, without a POST
C1_Witness ==
    /\ LoginConfigured
    /\ pages >= 2
    /\ pc = "send"
    /\ last_auth.called
    /\ last_auth.before \in Tokens
    /\ NoPost
    /\ last_auth.token = last_auth.before

\* a token-endpoint POST failed in the sense of the spec's wording: transport
\* error, unparsable body, or a status that is not 2xx
FailedNon2xx(o) ==
    \/ o.kind = "error"
    \/ o.kind = "resp" /\ (o.body = BadBody \/ ~(200 <= o.status /\ o.status <= 299))

\* a token-endpoint POST failed: transport error, unparsable body, or a 4xx
\* or 5xx status
Failed4xx5xx(o) ==
    \/ o.kind = "error"
    \/ o.kind = "resp" /\ (o.body = BadBody \/ (400 <= o.status /\ o.status <= 599))

\* C2 as stated: when the primary attempt fails (transport error, unparsable
\* body or non-2xx status) the fallback endpoint is posted to in that call,
\* and if the fallback fails too the call raises and returns no token.
C2_FallbackOnNon2xx ==
    (last_auth.called /\ FailedNon2xx(last_auth.primary)) =>
        /\ last_auth.fallback # NoOutcome
        /\ FailedNon2xx(last_auth.fallback) =>
             (last_auth.err # None /\ last_auth.token = None)

\* C2, amended: when the primary attempt fails with a transport error, an
\* unparsable body or a 4xx/5xx status, the fallback endpoint is posted to
\* in that call (the call holds one fallback POST); if the fallback fails
\* the same way the call raises, returns no token and caches none.  A
\* primary attempt that does not fail this way makes no fallback POST.
C2_FallbackOnRaise ==
    last_auth.called =>
        /\ Failed4xx5xx(last_auth.primary) =>
             /\ last_auth.fallback # NoOutcome
             /\ Failed4xx5xx(last_auth.fallback) =>
                  /\ last_auth.err # None
                  /\ last_auth.token = None
                  /\ last_auth.inst = last_auth.before
                  /\ pc = "aborted"
        /\ (last_auth.primary.kind = "resp" /\ ~Failed4xx5xx(last_auth.primary)) =>
             last_auth.fallback = NoOutcome

\* C2 witness: the primary endpoint answered 401, the fallback could not be
\* reached, and the call raised
C2_Witness ==
    /\ last_auth.called
    /\ last_auth.primary.status = 401
    /\ last_auth.fallback.kind = "error"
    /\ last_auth.err # None
    /\ pc = "aborted"

\* C3: when the primary endpoint answers with a 2xx status and a parsable
\* body, the call returns the token of that body and makes no fallback POST.
C3_PrimarySuccess ==
    ( /\ last_auth.called
      /\ last_auth.primary.kind = "resp"
      /\ 200 <= last_auth.primary.status /\ last_auth.primary.status <= 299
      /\ last_auth.primary.body # BadBody ) =>
        /\ LoginConfigured
        /\ last_auth.fallback = NoOutcome
        /\ last_auth.err = None
        /\ last_auth.token = last_auth.primary.body
        /\ bearer = last_auth.primary.body

\* C3 witness: the primary endpoint issued tokB and the request carries it
C3_Witness ==
    /\ last_auth.called
    /\ last_auth.primary = [kind |-> "resp", status |-> 200, body |-> "tokB"]
    /\ last_auth.token = "tokB"
    /\ pc = "send"

\* C4 as stated: whenever an API key is configured, whatever else is, the
\* token is the API key and no POST goes to a token endpoint.
C4_KeyAlwaysWins ==
    (KeyConfigured /\ last_auth.called) =>
        (last_auth.token = config.api_key /\ NoPost)

\* C4, amended: when an API key is configured and the configuration does not
\* hold both a non-empty username and a password, the token is the API key
\* and no POST goes to a token endpoint.
C4_KeyWithoutLogin ==
    (KeyConfigured /\ ~LoginConfigured /\ last_auth.called) =>
        /\ last_auth.token = config.api_key
        /\ last_auth.err = None
        /\ bearer = config.api_key
        /\ NoPost

\* C4 witness: an API key beside a username without password
C4_Witness ==
    /\ config = [username |-> "u", password |-> None, api_key |-> "k"]
    /\ last_auth.called
    /\ last_auth.token = "k"
    /\ pc = "send"

\* C5: when api_key is the only credential set, the token is the API key and
\* no POST goes to a token endpoint at any point of the run.
C5_KeyOnly ==
    (KeyConfigured /\ config.username = None /\ config.password = None) =>
        /\ \A s \in Streams : inst_token[s] = Unset
        /\ last_auth.called => (last_auth.token = config.api_key /\ NoPost)
        /\ bearer \in {Unset, config.api_key}

\* C5 witness: a page request prepared from the API key alone
C5_Witness ==
    /\ config = [username |-> None, password |-> None, api_key |-> "k"]
    /\ last_auth.called
    /\ last_auth.token = "k"
    /\ bearer = "k"
    /\ pc = "send"

\* C6 as stated: with neither an API key nor a username/password pair, the
\* first read of `authenticator` raises: no token, no data request.
C6_NoCredentialFails ==
    (~KeyConfigured /\ ~LoginConfigured /\ pages > 0) =>
        /\ pc = "aborted"
        /\ raised # None
        /\ bearer = Unset
        /\ tries = 0

\* the latest attempt ended with a 5xx response
Got5xx == resp.kind = "resp" /\ 500 <= resp.status /\ resp.status <= 599

\* the latest attempt ended with a 4xx response other than 404
Got4xx == resp.kind = "resp" /\ 400 <= resp.status /\ resp.status <= 499 /\ resp.status # 404

\* C7: a page request is never attempted more than 5 times; a 5xx answer to
\* one of the first 4 attempts leaves the request to be attempted again, a
\* 5xx answer to the 5th lets RetriableAPIError out; and once an attempt has
\* succeeded the request is not attempted again.
C7_FiveTries ==
    /\ [](tries <= 5)
    /\ [](Got5xx => IF tries < 5 THEN pc = "send"
                    ELSE (pc = "aborted" /\ raised = "RetriableAPIError"))
    /\ []((pc = "aborted" /\ raised = "RetriableAPIError") => (tries = 5 /\ Got5xx))
    /\ [][ (tries > 0 /\ pc # "send") => tries' \in {tries, 0} ]_vars

\* C7 witness: the 5th attempt was answered 503 and the error went out
C7_Witness ==
    /\ tries = 5
    /\ resp.status = 503
    /\ pc = "aborted"
    /\ raised = "RetriableAPIError"

\* C8: a 4xx answer other than 404 raises FatalAPIError out of the request at
\* once: the stream is aborted, and no step follows (no retry); when it
\* answers the first attempt, the request was attempted once.
C8_FatalNotRetried ==
    /\ [](Got4xx => (resp.exc = "FatalAPIError" /\ pc = "aborted"
                     /\ raised = "FatalAPIError"))
    /\ [][ ~Got4xx ]_vars

\* C8 witness: 403 on the first attempt
C8_Witness ==
    /\ resp.status = 403
    /\ tries = 1
    /\ pc = "aborted"
    /\ raised = "FatalAPIError"

\* C9 as stated: an exception of the HTTP transport, read timeout or
\* connection failure, on one of the first 4 attempts leaves the request to
\* be attempted again; on the 5th it goes out.  (Stated for runs that have a
\* credential configured.)
C9_TransportRetried ==
    ((KeyConfigured \/ LoginConfigured) /\ resp.kind = "exc") =>
        IF tries < 5 THEN pc = "send" ELSE (pc = "aborted" /\ raised = resp.exc)

\* C10: validate_response raises nothing for 404, FatalAPIError for the
\* other statuses of 400-499, RetriableAPIError for 500-599, and nothing for
\* a status outside 400-599.
C10_Classification ==
    resp.kind = "resp" =>
        /\ resp.status = 404 => resp.exc = None
        /\ (400 <= resp.status /\ resp.status <= 499 /\ resp.status # 404) =>
              resp.exc = "FatalAPIError"
        /\ (500 <= resp.status /\ resp.status <= 599) => resp.exc = "RetriableAPIError"
        /\ (resp.status < 400 \/ resp.status > 599) => resp.exc = None

\* C10 witness: a 404 went through validation without an exception
C10_Witness ==
    /\ resp.kind = "resp"
    /\ resp.status = 404
    /\ resp.exc = None
    /\ pc = "parse"

\* the run has a credential configured
Credentialed == KeyConfigured \/ LoginConfigured

\* the latest attempt ended with a 404 response
Got404 == resp.kind = "resp" /\ resp.status = 404

\* a 404 was taken as the empty last page: no exception from validation, no
\* retry, no record, no further page, no abort
EndsQuietly ==
    /\ resp.exc = None
    /\ pc \in {"parse", "done"}
    /\ emitted = 0
    /\ pc = "done" => next_page_token = NoneToken

\* C11 as stated: in every stream configuration a 404 response passes
\* validation, yields no record and ends the pagination of the stream,
\* without an error and without a retry.  (Stated for runs that have a
\* credential configured.)
C11_404EndsAlways == (Credentialed /\ Got404) => EndsQuietly

\* C11, amended: when no next-page JSON path is configured, a 404 response
\* (whatever its body) passes validation, yields no record and ends the
\* pagination of the stream, without an error and without a retry.
C11_404EndsWithoutPath == (Got404 /\ jsonpath = None) => EndsQuietly

\* C11 witness: a 404 with a body that is not JSON ended the stream
C11_Witness ==
    /\ Got404
    /\ jsonpath = None
    /\ ~resp.body.json
    /\ pc = "done"
    /\ emitted = 0

\* ProcessPage has consumed a validated response (or aborted on it)
Consumed ==
    /\ resp.kind = "resp"
    /\ resp.exc = None
    /\ pc \in {"prepare", "done", "aborted"}

\* the cursor the total-count rule gives for a body: current_page taken as 1
\* when the body does not carry it, total_count as 0 when it is absent
TotalCountCursor(b) ==
    LET cp == IF b.search_criteria = "page" THEN b.current_page ELSE 1
        tc == IF b.total_count = Absent THEN 0 ELSE b.total_count
    IN  IF tc > cp * 300 THEN cp + 1 ELSE NoneToken

\* C12 as stated: with no next-page JSON path and a non-404 response with a
\* JSON body, get_next_page_token gives a result for every body, and that
\* result is current_page + 1 exactly when total_count > current_page * 300
\* (current_page taken as 1 whenever it is absent), else no more pages.
\* (Stated for runs that have a credential configured.)
C12_TotalCountRule ==
    ( /\ Credentialed
      /\ jsonpath = None
      /\ Consumed
      /\ resp.status # 404
      /\ resp.body.json ) =>
        /\ pc # "aborted"
        /\ next_page_token = TotalCountCursor(resp.body)

\* a page request has been prepared and the cursor it was built from is
\* still the loop's cursor
Prepared == pages > 0 /\ pc \in {"send", "parse", "aborted"}

\* C13: every prepared page request carries searchCriteria[pageSize] = 300
\* and searchCriteria[currentPage] equal to the cursor, or 1 without cursor.
C13_PagingParams ==
    Prepared =>
        /\ params.pageSize = 300
        /\ params.currentPage = IF next_page_token = NoneToken THEN 1 ELSE next_page_token

\* C13 witness: the request for page 3
C13_Witness ==
    /\ pc = "send"
    /\ next_page_token = 3
    /\ params.currentPage = 3
    /\ params.pageSize = 300

\* the request carries the ascending sort and the greater-than filter on the
\* replication key, with a value of the six fields year .. second
SortedAndFiltered ==
    /\ params.sort = "asc"
    /\ params.filter_field = replication.key
    /\ params.filter_condition = "gt"
    /\ Len(params.filter_value) = 6

\* C14 as stated: with a replication key configured, every page request
\* after the first carries the ascending sort and the greater-than filter.
\* (Stated for runs that have a credential configured.)
C14_FilterAfterFirst ==
    (Credentialed /\ replication.key # None /\ pages >= 2 /\ Prepared) =>
        SortedAndFiltered

\* C14, amended: with a replication key configured and a starting timestamp
\* available, every page request, the first included, carries the ascending
\* sort, the greater-than filter on the replication key with the starting
\* timestamp as year-month-day hour:minute:second, and order_by; with a
\* replication key and no starting timestamp it carries order_by alone.
C14_FilterWhenStartKnown ==
    (replication.key # None /\ Prepared) =>
        /\ params.order_by = replication.key
        /\ IF replication.start.known
           THEN /\ SortedAndFiltered
                /\ params.filter_value =
                     << replication.start.year, replication.start.month,
                        replication.start.day, replication.start.hour,
                        replication.start.minute, replication.start.second >>
           ELSE /\ params.sort = None
                /\ params.filter_field = None
                /\ params.filter_condition = None
                /\ params.filter_value = << >>

\* C14 witness: a second page request with the filter on 2024-01-02 03:04:05
C14_Witness ==
    /\ pages = 2
    /\ pc = "send"
    /\ replication.key = "updated_at"
    /\ params.filter_condition = "gt"
    /\ params.filter_value = << 2024, 1, 2, 3, 4, 5 >>
    /\ params.sort = "asc"

\* the run is over: an exception went out, or the last stream is done
Terminated == pc = "aborted" \/ (pc = "done" /\ cur = NumStreams)

\* the response just consumed reports a further page: a match of the
\* next-page JSON path, or total_count beyond the current page
MoreReported ==
    /\ pc = "prepare"
    /\ resp.kind = "resp"
    /\ resp.body.json
    /\ IF jsonpath # None
       THEN resp.body.next # Absent
       ELSE /\ resp.status # 404
            /\ resp.body.search_criteria # "no_page"
            /\ (IF resp.body.total_count = Absent THEN 0 ELSE resp.body.total_count)
                 > 300 * (IF resp.body.search_criteria = "page"
                          THEN resp.body.current_page ELSE 1)

\* C15 as stated: every run terminates, whatever the servers answer.
C15_Terminates == <>Terminated

\* C15, amended: every run terminates, or is again and again answered by a
\* response that reports a further page; no page request is retried forever
\* and no stream goes on without the server reporting more pages.
C15_TerminatesUnlessMore == <>Terminated \/ []<>MoreReported

\* C15 witness: the last stream ended after MaxPages page requests
C15_Witness ==
    /\ pc = "done"
    /\ cur = NumStreams
    /\ pages = MaxPages

\* C16 as stated: the token exchange is made at most once in a process: when
\* a stream reads `authenticator` while an earlier stream of the run holds
\* a token, it posts to no token endpoint and uses that token.
C16_OneExchangePerProcess ==
    \A s \in Streams :
        (LoginConfigured /\ s < cur /\ HoldsToken(s) /\ last_auth.called) =>
            /\ NoPost
            /\ last_auth.token = inst_token[s]

\* C17 as stated: within the retries of one page request, the delay waited
\* before a retry is strictly greater than the delay waited before the
\* previous retry.
C17_DelayIncreases ==
    [][ (Credentialed /\ pc = "send" /\ pc' = "send" /\ tries >= 1) =>
            wait' > wait ]_vars

\* C17: within the retries of one page request, the upper bound of the delay
\* is `factor` seconds before the first retry and doubles with every further
\* retry, and the delay waited lies between 0 and that bound.
C17_BoundDoubles ==
    [][ (pc' = "send" /\ tries' >= 1) =>
            /\ wait_max' = (IF tries' = 1 THEN factor ELSE 2 * wait_max)
            /\ wait' \in 0 .. wait_max' ]_vars

C17_Witness ==
    /\ pc = "send"
    /\ tries = max_tries - 1
    /\ wait_max = 16
    /\ wait = 8

\* C18 as stated: records are emitted only from a response that passed
\* validation; an attempt that fails or is retried emits nothing and leaves
\* the page cursor and the request's page as they are; and when the stream
\* aborts on an error, no record of the failing page has been emitted.
C18_NoPartialPage ==
    [][ Credentialed =>
          /\ (emitted' > 0 /\ emitted' # emitted) =>
                 (pc = "parse" /\ resp.kind = "resp" /\ resp.exc = None)
          /\ (pc = "send" /\ pc' \in {"send", "aborted"}) =>
                 /\ emitted' = 0
                 /\ next_page_token' = next_page_token
                 /\ params' = params
          /\ pc' = "aborted" => emitted' = 0 ]_vars

\* the count of pages of t records, one at least
PagesOf(t) == IF t = 0 THEN 1 ELSE (t + PageSize - 1) \div PageSize

\* C19: against a server that reports a fixed total_count and echoes the
\* requested page, with no errors, the k-th request of a stream asks for page
\* k (1, 2, 3, ... with none skipped or repeated) and the stream stops after
\* exactly max(1, ceil(total_count / 300)) requests.
C19_ConsecutivePages ==
    /\ pc \in {"send", "parse"} => params.currentPage = pages
    /\ (pc = "prepare" /\ pages > 0) =>
           (next_page_token = pages + 1 /\ pages < PagesOf(total))
    /\ pc = "done" => pages = PagesOf(total)

C19_Witness ==
    /\ pc = "done"
    /\ total = 2 * PageSize + 1
    /\ pages = 3
    /\ emitted = 1

\* the token-endpoint response the call just made ended with
LastLogin ==
    IF last_auth.fallback # NoOutcome THEN last_auth.fallback ELSE last_auth.primary

Status2xx(o) == o.kind = "resp" /\ 200 <= o.status /\ o.status <= 299

\* the status is one raise_for_status lets pass
StatusNotError(o) == o.kind = "resp" /\ ~(400 <= o.status /\ o.status <= 599)

\* C20 as stated: in username/password mode the cached token is set only from
\* the body of a token-endpoint response with a 2xx status; after a get_token
\* call that fails it is as it was (unset); and the prepared data request
\* bears the token held before or the body of a 2xx token response.
C20_TokenFrom2xx ==
    (LoginConfigured /\ last_auth.called) =>
        /\ last_auth.inst # last_auth.before =>
               (Status2xx(LastLogin) /\ last_auth.inst = LastLogin.body)
        /\ last_auth.err # None =>
               (last_auth.inst = last_auth.before /\ ~HoldsToken(cur))
        /\ pc = "send" =>
               \/ NoPost /\ bearer = last_auth.before
               \/ Status2xx(LastLogin) /\ bearer = LastLogin.body

\* C20: the same with "a status that is not 4xx or 5xx" for "a 2xx status".
C20_TokenFromAccepted ==
    (LoginConfigured /\ last_auth.called) =>
        /\ last_auth.inst # last_auth.before =>
               (StatusNotError(LastLogin) /\ last_auth.inst = LastLogin.body)
        /\ last_auth.err # None =>
               (last_auth.inst = last_auth.before /\ ~HoldsToken(cur))
        /\ pc = "send" =>
               \/ NoPost /\ bearer = last_auth.before
               \/ StatusNotError(LastLogin) /\ bearer = LastLogin.body

C20_Witness ==
    /\ LoginConfigured
    /\ last_auth.called
    /\ Failed4xx5xx(last_auth.primary)
    /\ last_auth.fallback.kind = "resp"
    /\ last_auth.fallback.status = 300
    /\ pc = "send"
    /\ bearer = "tokA"
    /\ inst_token[cur] = "tokA"

====
